---------------------------- MODULE Spec2Model ----------------------------
(***************************************************************************)
(* State-machine model of PeatDepthPoints.processAlgorithm                 *)
(* (src/processing/algs/peat_point_processing.py, lines 172-314): the grid *)
(* sampler that walks a lattice of candidate points over the bounding box  *)
(* of every polygon feature of the source layer and adds to the sink the   *)
(* candidates that lie within the polygon.                                 *)
(*                                                                         *)
(* Geometry.  A polygon is a single ring: a sequence of vertices <<x, y>>. *)
(* Vertex coordinates are stored in HALF METRES, so that bounding boxes    *)
(* with fractional bounds (x.5 m) exist and int() has something to         *)
(* truncate.  Candidate points, eastings and northings are in whole        *)
(* metres, as in the code (they are Python ints).                          *)
(***************************************************************************)
EXTENDS Integers, Sequences, FiniteSets

(***************************************************************************)
(* Bound of the model: the largest number of features of a source layer.   *)
(***************************************************************************)
MaxFeatures == 2

(***************************************************************************)
(* Bound of the model: the truncated minima roundup is applied to on its   *)
(* own range over -MaxTruncated..MaxTruncated.                             *)
(***************************************************************************)
MaxTruncated == 250

(***************************************************************************)
(* The polygons the source layer's features are drawn from (half metres).  *)
(***************************************************************************)
\* square (0,0)-(150,150): the worked example of the specification
SquareB == << <<0, 0>>, <<300, 0>>, <<300, 300>>, <<0, 300>> >>
\* square (0.5,0.5)-(100.5,100.5): fractional bounds on both sides
FracSquare == << <<1, 1>>, <<201, 1>>, <<201, 201>>, <<1, 201>> >>
\* rectangle (-75.5,-60)-(60,30.5): negative and fractional bounds
NegRect == << <<-151, -120>>, <<120, -120>>, <<120, 61>>, <<-151, 61>> >>
\* concave L (0,0),(160,0),(160,100),(100,100),(100,160),(0,160)
LShape == << <<0, 0>>, <<320, 0>>, <<320, 200>>, <<200, 200>>,
             <<200, 320>>, <<0, 320>> >>
\* zero-area ring on the line x = 50, from (50,0) to (50,100)
Sliver == << <<100, 0>>, <<100, 200>>, <<100, 0>> >>

\* zero-area ring on the line y = 100, from (0,100) to (200,100)
FlatSliver == << <<0, 200>>, <<400, 200>>, <<0, 200>> >>
\* zero-area ring collapsed to the single point (100,100)
Dot == << <<200, 200>>, <<200, 200>>, <<200, 200>> >>

Polygons == {SquareB, FracSquare, NegRect, LShape, Sliver, FlatSliver, Dot}

\* the layers a run can be given: every sequence of 0..MaxFeatures polygons
Layers == UNION {[1..n -> Polygons] : n \in 0..MaxFeatures}

\* reference systems a source layer can declare
BNG == "EPSG:27700"
CrsIds == {BNG, "EPSG:27700+offset"}

(***************************************************************************)
(* Pure helpers of the lattice walk.                                       *)
(***************************************************************************)
\* Python int() of a float held in half metres: truncation toward zero
int(h) == IF h >= 0 THEN h \div 2 ELSE 0 - ((0 - h) \div 2)

Min(S) == CHOOSE m \in S : \A k \in S : m <= k
Max(S) == CHOOSE m \in S : \A k \in S : m >= k

\* QgsGeometry.boundingBox(): min and max of the vertex coordinates
boundingBox(geom) ==
  [xMinimum |-> Min({geom[i][1] : i \in 1..Len(geom)}),
   xMaximum |-> Max({geom[i][1] : i \in 1..Len(geom)}),
   yMinimum |-> Min({geom[i][2] : i \in 1..Len(geom)}),
   yMaximum |-> Max({geom[i][2] : i \in 1..Len(geom)})]

\* the remainder of a division that truncates toward zero (C's %, fmod)
TruncRem(a, b) == IF a >= 0 THEN a % b ELSE 0 - ((0 - a) % b)

\* roundup with a remainder that takes the sign of the dividend
roundup_TruncRem(a, b) ==
  IF TruncRem(a, b) = 0 THEN a ELSE (a + b) - TruncRem(a, b)

\* a start that is not rounded to the lattice
roundup_NoRounding(a, b) == a

\* roundup = lambda a, b: a if a % b == 0 else a + b - a % b
\* (Python's % takes the sign of the divisor, as TLA+'s does for b > 0)
roundup(a, b) == IF a % b = 0 THEN a ELSE (a + b) - (a % b)

\* the GRID50 test inverted
SpacingOf_Inverted(g50) == IF g50 = TRUE THEN 100 ELSE 50

\* lines 205-208: spacing chosen from the GRID50 parameter
SpacingOf(g50) == IF g50 = TRUE THEN 50 ELSE 100

(***************************************************************************)
(* point.within(geom): the point lies in the interior of the polygon.      *)
(* p is in half metres, like the ring.                                     *)
(***************************************************************************)
Cross(a, b, p) == (b[1] - a[1]) * (p[2] - a[2]) - (b[2] - a[2]) * (p[1] - a[1])

EdgeFrom(geom, i) == geom[i]
EdgeTo(geom, i) == geom[(i % Len(geom)) + 1]

OnSegment(a, b, p) ==
  /\ Cross(a, b, p) = 0
  /\ Min({a[1], b[1]}) <= p[1] /\ p[1] <= Max({a[1], b[1]})
  /\ Min({a[2], b[2]}) <= p[2] /\ p[2] <= Max({a[2], b[2]})

OnBoundary(p, geom) ==
  \E i \in 1..Len(geom) : OnSegment(EdgeFrom(geom, i), EdgeTo(geom, i), p)

\* the edge a->b crosses the horizontal ray from p towards +x
RayCrosses(a, b, p) ==
  \/ a[2] <= p[2] /\ p[2] < b[2] /\ Cross(a, b, p) > 0
  \/ b[2] <= p[2] /\ p[2] < a[2] /\ Cross(a, b, p) < 0

InInterior(p, geom) ==
  /\ ~OnBoundary(p, geom)
  /\ Cardinality({i \in 1..Len(geom) :
                    RayCrosses(EdgeFrom(geom, i), EdgeTo(geom, i), p)}) % 2 = 1

\* boundary-inclusive membership (QgsGeometry.intersects), x and y in metres
intersects(px, py, geom) ==
  InInterior(<<2 * px, 2 * py>>, geom) \/ OnBoundary(<<2 * px, 2 * py>>, geom)

\* QgsGeometry.fromPointXY(QgsPointXY(x, y)).within(geom), x and y in metres
within(px, py, geom) == InInterior(<<2 * px, 2 * py>>, geom)

(***************************************************************************)
(* Reprojection of a layer to EPSG:27700 (processing.run of                *)
(* qgis:reprojectlayer).  A layer already in EPSG:27700 keeps its          *)
(* coordinates; the other reference system of the model is a grid whose    *)
(* origin lies 10 m west and 5 m south of the national grid's, so its      *)
(* coordinates are translated.                                             *)
(***************************************************************************)
TransformVertex(v, crs) ==
  IF crs = BNG THEN v ELSE <<v[1] + 20, v[2] + 10>>

TransformGeom(geom, crs) ==
  [i \in 1..Len(geom) |-> TransformVertex(geom[i], crs)]

ReprojectLayer(layer, crs) ==
  [i \in 1..Len(layer) |-> TransformGeom(layer[i], crs)]

\* Python's "a is not b" on two objects: identity, not value
IsNot(a, b) == a.obj # b.obj

(***************************************************************************)
(* State.                                                                  *)
(***************************************************************************)
VARIABLES
  features,     \* the features of the INPUT layer, in its own reference system
  sourceValid,  \* parameterAsVectorLayer yields a layer (FALSE: None)
  sinkValid,    \* parameterAsSink yields a sink (FALSE: None)
  sourceCrs,    \* the reference system the INPUT layer declares
  grid50,       \* the GRID50 parameter
  canceled,     \* feedback.isCanceled(): set by the user, at any time
  pc,           \* position in processAlgorithm
  error,        \* the exception that ended the run, "none" if none
  source,       \* the features of the local `source` after line 203
  reprojected,  \* qgis:reprojectlayer was run
  spacing,      \* local `spacing` (0: not assigned yet)
  count,        \* local `count`
  current,      \* local `current` of the for loop (-1: not bound)
  geom,         \* local `geom`: the ring of the feature being scanned
  start_x, end_x, end_y,
  x, y,         \* the loop variables of the lattice walk
  sink,         \* the features added to the sink, in order
  polls,        \* number of calls of feedback.isCanceled()
  broke,        \* the for loop was left by the break of line 248
  progress,     \* last value given to feedback.setProgress (-1: none)
  returned,     \* processAlgorithm returned {OUTPUT: dest_id}
  run,          \* number of the call of processAlgorithm (1 or 2)
  previous,     \* what the call before this one left: its sink, its break
  roundupArg,   \* an argument `a` given to roundup on its own
  roundupResult \* <<roundup(a, spacing)>> once applied, <<>> before

vars == <<features, sourceValid, sinkValid, sourceCrs, grid50, canceled, pc,
          error, source, reprojected, spacing, count, current, geom,
          start_x, end_x, end_y, x, y, sink, polls, broke, progress,
          returned, run, previous, roundupArg, roundupResult>>

inputs == <<features, sourceValid, sinkValid, sourceCrs, grid50>>
walk == <<geom, start_x, end_x, end_y, x, y>>
calls == <<run, previous>>
probe == <<roundupArg, roundupResult>>

ProgramInit ==
  /\ features \in Layers
  /\ sourceValid \in BOOLEAN
  /\ sinkValid \in BOOLEAN
  /\ sourceCrs \in CrsIds
  /\ grid50 \in BOOLEAN
  /\ canceled = FALSE
  /\ pc = "start"
  /\ error = "none"
  /\ source = <<>>
  /\ reprojected = FALSE
  /\ spacing = 0
  /\ count = 0
  /\ current = -1
  /\ geom = <<>>
  /\ start_x = 0 /\ end_x = 0 /\ end_y = 0
  /\ x = 0 /\ y = 0
  /\ sink = <<>>
  /\ polls = 0
  /\ broke = FALSE
  /\ progress = -1
  /\ returned = FALSE
  /\ run = 1
  /\ previous = [sink |-> <<>>, broke |-> FALSE]

Init ==
  /\ ProgramInit
  /\ roundupArg = 0
  /\ roundupResult = <<>>

\* the reference-system objects compared on line 194
peat_crs == [obj |-> "peat_layer.crs()", authid |-> BNG]
source_crs == [obj |-> "source.sourceCrs()", authid |-> sourceCrs]

(***************************************************************************)
(* Lines 177-191: the parameters are read and source.sourceCrs() is        *)
(* called.  With source = None the call raises AttributeError.             *)
(***************************************************************************)
ResolveInputs ==
  /\ pc = "start"
  /\ IF sourceValid
       THEN /\ pc' = "reproject"
            /\ source' = features
            /\ error' = error
       ELSE /\ pc' = "failed"
            /\ error' = "AttributeError"
            /\ source' = source
  /\ UNCHANGED <<calls, probe, inputs, canceled, reprojected, spacing, count, current,
                 walk, sink, polls, broke, progress, returned>>

(***************************************************************************)
(* Lines 194-203: "if source_crs is not peat_crs" compares two distinct    *)
(* objects by identity.                                                    *)
(***************************************************************************)
Reproject ==
  /\ pc = "reproject"
  /\ IF IsNot(source_crs, peat_crs)
       THEN /\ source' = ReprojectLayer(source, sourceCrs)
            /\ reprojected' = TRUE
       ELSE UNCHANGED <<source, reprojected>>
  /\ pc' = "prepare"
  /\ UNCHANGED <<calls, probe, inputs, canceled, error, spacing, count, current, walk,
                 sink, polls, broke, progress, returned>>

\* a counter kept outside the call (on the instance or the module), set
\* once and continued by the next call
PrepareSink_CounterCarriedOver ==
  /\ pc = "prepare"
  /\ spacing' = SpacingOf(grid50)
  /\ IF ~sourceValid
       THEN /\ pc' = "failed"
            /\ error' = "InvalidSource"
            /\ count' = count
       ELSE IF ~sinkValid
         THEN /\ pc' = "failed"
              /\ error' = "InvalidSink"
              /\ count' = count
         ELSE /\ pc' = "loop"
              /\ error' = error
              /\ count' = Len(previous.sink) + 1
  /\ UNCHANGED <<calls, probe, inputs, canceled, source, reprojected, current, walk,
                 sink, polls, broke, progress, returned>>

(***************************************************************************)
(* Lines 205-243: spacing, the source check, the sink and its check, the   *)
(* counter.  source is a layer here (line 191 raised otherwise).           *)
(***************************************************************************)
PrepareSink ==
  /\ pc = "prepare"
  /\ spacing' = SpacingOf(grid50)
  /\ IF ~sourceValid
       THEN /\ pc' = "failed"
            /\ error' = "InvalidSource"
            /\ count' = count
       ELSE IF ~sinkValid
         THEN /\ pc' = "failed"
              /\ error' = "InvalidSink"
              /\ count' = count
         ELSE /\ pc' = "loop"
              /\ error' = error
              /\ count' = 1
  /\ UNCHANGED <<calls, probe, inputs, canceled, source, reprojected, current, walk, sink,
                 polls, broke, progress, returned>>

\* a walk whose upper bounds are inclusive (x <= x_max, y <= y_max)
WalkOf_InclusiveEnd(g, s) ==
  LET bbox == boundingBox(g)
  IN  [start_x |-> roundup(int(bbox.xMinimum), s),
       start_y |-> roundup(int(bbox.yMinimum), s),
       end_x |-> int(bbox.xMaximum) + 1,
       end_y |-> int(bbox.yMaximum) + 1]

(***************************************************************************)
(* Lines 251-263: the truncated bounding box and the bounds of the walk.   *)
(***************************************************************************)
WalkOf(g, s) ==
  LET bbox == boundingBox(g)
      x_max == int(bbox.xMaximum)
      y_max == int(bbox.yMaximum)
      x_min == int(bbox.xMinimum)
      y_min == int(bbox.yMinimum)
  IN  [start_x |-> roundup(x_min, s),
       start_y |-> roundup(y_min, s),
       end_x |-> x_max,
       end_y |-> y_max]

(***************************************************************************)
(* Lines 245-265: the for loop takes the next feature, polls the           *)
(* cancellation flag and prepares the walk over the bounding box.          *)
(***************************************************************************)
NextFeature ==
  /\ pc = "loop"
  /\ current + 1 < Len(source)
  /\ current' = current + 1
  /\ polls' = polls + 1
  /\ IF canceled
       THEN /\ pc' = "finish"
            /\ broke' = TRUE
            /\ UNCHANGED walk
       ELSE LET g == source[current + 2]
                w == WalkOf(g, spacing)
            IN  /\ geom' = g
                /\ start_x' = w.start_x
                /\ end_x' = w.end_x
                /\ end_y' = w.end_y
                /\ y' = w.start_y
                /\ x' = x
                /\ broke' = broke
                /\ pc' = "row"
  /\ UNCHANGED <<calls, probe, inputs, canceled, error, source, reprojected, spacing,
                 count, sink, progress, returned>>

\* the for loop finds no further feature
LoopExhausted ==
  /\ pc = "loop"
  /\ current + 1 >= Len(source)
  /\ pc' = "finish"
  /\ UNCHANGED <<calls, probe, inputs, canceled, error, source, reprojected, spacing,
                 count, current, walk, sink, polls, broke, progress, returned>>

\* a walk that polls the cancellation flag at every row and breaks
BeginRow_PollsCancel ==
  /\ pc = "row"
  /\ y < end_y
  /\ polls' = polls + 1
  /\ IF canceled
       THEN /\ pc' = "finish"
            /\ broke' = TRUE
            /\ x' = x
       ELSE /\ pc' = "col"
            /\ broke' = broke
            /\ x' = start_x
  /\ UNCHANGED <<calls, probe, inputs, canceled, error, source, reprojected, spacing,
                 count, current, geom, start_x, end_x, end_y, y, sink,
                 progress, returned>>

(***************************************************************************)
(* Lines 269-271: while y < end_y: x = start_x                             *)
(***************************************************************************)
BeginRow ==
  /\ pc = "row"
  /\ y < end_y
  /\ x' = start_x
  /\ pc' = "col"
  /\ UNCHANGED <<calls, probe, inputs, canceled, error, source, reprojected, spacing,
                 count, current, geom, start_x, end_x, end_y, y, sink, polls,
                 broke, progress, returned>>

\* line 269 false: the walk of this feature is over, back to the for loop
EndFeature ==
  /\ pc = "row"
  /\ ~(y < end_y)
  /\ pc' = "loop"
  /\ UNCHANGED <<calls, probe, inputs, canceled, error, source, reprojected, spacing,
                 count, current, walk, sink, polls, broke, progress, returned>>

(***************************************************************************)
(* Lines 273-292: one candidate (x, y): the containment test, the feature  *)
(* added to the sink, the counter, x += spacing.  The record's `feature`   *)
(* field is the index of the source feature being scanned; the code does   *)
(* not store it, the properties below read it.                             *)
(***************************************************************************)
\* a classification that takes one aligned coordinate for both
SpacingAttr_EitherAxis(px, py) ==
  IF px % 100 = 0 \/ py % 100 = 0 THEN 100 ELSE 50

\* lines 280-283: the spacing attribute of an added feature
SpacingAttr(px, py) == IF px % 100 = 0 /\ py % 100 = 0 THEN 100 ELSE 50

\* a walk whose counter advances on every candidate, contained or not
TestCandidate_CountsCandidates ==
  /\ pc = "col"
  /\ x < end_x
  /\ IF within(x, y, geom)
       THEN sink' = Append(sink, [record_id |-> count, easting |-> x,
                                  northing |-> y,
                                  spacing |-> SpacingAttr(x, y),
                                  feature |-> current])
       ELSE sink' = sink
  /\ count' = count + 1
  /\ x' = x + spacing
  /\ UNCHANGED <<calls, probe, inputs, canceled, pc, error, source, reprojected, spacing,
                 current, geom, start_x, end_x, end_y, y, polls, broke,
                 progress, returned>>

\* a walk whose `x += spacing` sits inside the `if point.within(geom)` block
TestCandidate_AdvanceInsideIf ==
  /\ pc = "col"
  /\ x < end_x
  /\ IF within(x, y, geom)
       THEN /\ sink' = Append(sink, [record_id |-> count, easting |-> x,
                                     northing |-> y,
                                     spacing |-> SpacingAttr(x, y),
                                     feature |-> current])
            /\ count' = count + 1
            /\ x' = x + spacing
       ELSE UNCHANGED <<sink, count, x>>
  /\ UNCHANGED <<calls, probe, inputs, canceled, pc, error, source, reprojected, spacing,
                 current, geom, start_x, end_x, end_y, y, polls, broke,
                 progress, returned>>

TestCandidate ==
  /\ pc = "col"
  /\ x < end_x
  /\ IF within(x, y, geom)
       THEN /\ sink' = Append(sink, [record_id |-> count, easting |-> x,
                                     northing |-> y,
                                     spacing |-> SpacingAttr(x, y),
                                     feature |-> current])
            /\ count' = count + 1
       ELSE UNCHANGED <<sink, count>>
  /\ x' = x + spacing
  /\ UNCHANGED <<calls, probe, inputs, canceled, pc, error, source, reprojected, spacing,
                 current, geom, start_x, end_x, end_y, y, polls, broke,
                 progress, returned>>

\* line 273 false, line 294: y += spacing
EndRow ==
  /\ pc = "col"
  /\ ~(x < end_x)
  /\ y' = y + spacing
  /\ pc' = "row"
  /\ UNCHANGED <<calls, probe, inputs, canceled, error, source, reprojected, spacing,
                 count, current, geom, start_x, end_x, end_y, x, sink, polls,
                 broke, progress, returned>>

(***************************************************************************)
(* Lines 240, 300-314: after the loop, setProgress(int(current * total))   *)
(* and the return.  `current` is bound only if the loop took a feature.    *)
(***************************************************************************)
Finish ==
  /\ pc = "finish"
  /\ IF current = -1
       THEN /\ pc' = "failed"
            /\ error' = "UnboundLocalError"
            /\ UNCHANGED <<progress, returned>>
       ELSE /\ progress' = (current * 100) \div Len(source)
            /\ returned' = TRUE
            /\ pc' = "done"
            /\ error' = error
  /\ UNCHANGED <<calls, probe, inputs, canceled, source, reprojected, spacing, count,
                 current, walk, sink, polls, broke>>

\* the user clicks cancel while the algorithm runs
Cancel ==
  /\ pc \notin {"done", "failed"}
  /\ ~canceled
  /\ canceled' = TRUE
  /\ UNCHANGED <<calls, probe, inputs, pc, error, source, reprojected, spacing, count,
                 current, walk, sink, polls, broke, progress, returned>>

Next ==
  \/ ResolveInputs
  \/ Reproject
  \/ PrepareSink
  \/ NextFeature
  \/ LoopExhausted
  \/ BeginRow
  \/ EndFeature
  \/ TestCandidate
  \/ EndRow
  \/ Finish
  \/ Cancel

Spec == Init /\ [][Next]_vars

(***************************************************************************)
(* A second call of processAlgorithm with the same parameters, after the   *)
(* first has returned.  Every local of line 177-314 belongs to the call's  *)
(* own frame and starts unassigned again; the sink and the feedback are    *)
(* new objects of the new call.  The class keeps no attribute that         *)
(* processAlgorithm writes.                                                *)
(***************************************************************************)
Rerun ==
  /\ pc = "done"
  /\ run = 1
  /\ run' = 2
  /\ previous' = [sink |-> sink, broke |-> broke]
  /\ canceled' = FALSE
  /\ pc' = "start"
  /\ error' = "none"
  /\ source' = <<>>
  /\ reprojected' = FALSE
  /\ spacing' = 0
  /\ count' = 0
  /\ current' = -1
  /\ geom' = <<>>
  /\ start_x' = 0 /\ end_x' = 0 /\ end_y' = 0
  /\ x' = 0 /\ y' = 0
  /\ sink' = <<>>
  /\ polls' = 0
  /\ broke' = FALSE
  /\ progress' = -1
  /\ returned' = FALSE
  /\ UNCHANGED <<inputs, probe>>

NextTwoRuns ==
  \/ Next
  \/ Rerun

TwoRunSpec == Init /\ [][NextTwoRuns]_vars

(***************************************************************************)
(* roundup (line 258) on its own: an integer a from the bounded range and  *)
(* the spacing of lines 205-208, applied once.  The algorithm itself is    *)
(* idle, on an empty layer.                                                *)
(***************************************************************************)
RoundupInit ==
  /\ ProgramInit
  /\ features = <<>>
  /\ sourceValid /\ sinkValid
  /\ sourceCrs = BNG
  /\ roundupArg \in (0 - MaxTruncated)..MaxTruncated
  /\ roundupResult = <<>>

ApplyRoundup ==
  /\ roundupResult = <<>>
  /\ roundupResult' = <<roundup(roundupArg, SpacingOf(grid50))>>
  /\ UNCHANGED <<calls, inputs, roundupArg, canceled, pc, error, source,
                 reprojected, spacing, count, current, walk, sink, polls,
                 broke, progress, returned>>

RoundupSpec == RoundupInit /\ [][ApplyRoundup]_vars

(***************************************************************************)
(* processAlgorithm is one synchronous call: once started, the interpreter *)
(* keeps executing its next statement until it returns or raises.  The     *)
(* user's click on cancel is under no such obligation.                     *)
(***************************************************************************)
Program ==
  \/ ResolveInputs
  \/ Reproject
  \/ PrepareSink
  \/ NextFeature
  \/ LoopExhausted
  \/ BeginRow
  \/ EndFeature
  \/ TestCandidate
  \/ EndRow
  \/ Finish

FairSpec == Init /\ [][Next]_vars /\ WF_vars(Program)

(***************************************************************************)
(* Properties.                                                             *)
(***************************************************************************)
\* the ring of the source feature a sink record was emitted for
RingOf(r) == source[r.feature + 1]

\* the bounding box of that ring
BoxOf(r) == boundingBox(RingOf(r))

\* the lattice points of spacing s that lie strictly inside ring g (metres)
InteriorLattice(g, s) ==
  LET bb == boundingBox(g)
      xs == {v \in ((bb.xMinimum \div 2) - 1)..((bb.xMaximum \div 2) + 1) :
               v % s = 0}
      ys == {v \in ((bb.yMinimum \div 2) - 1)..((bb.yMaximum \div 2) + 1) :
               v % s = 0}
  IN  {p \in xs \X ys : InInterior(<<2 * p[1], 2 * p[2]>>, g)}

\* the sink records emitted for feature f at the point p
RecordsAt(f, p) ==
  {k \in 1..Len(sink) : /\ sink[k].feature = f
                        /\ sink[k].easting = p[1]
                        /\ sink[k].northing = p[2]}

\* the points of the sink records emitted for feature f
PointsOf(f) ==
  {<<sink[k].easting, sink[k].northing>> :
     k \in {j \in 1..Len(sink) : sink[j].feature = f}}

\* C1 (P1, containment): every point added to the sink lies strictly inside
\* the polygon of the feature it was emitted for: it is in the interior, so
\* neither on the boundary nor outside.
C1_Containment ==
  \A k \in 1..Len(sink) :
    /\ InInterior(<<2 * sink[k].easting, 2 * sink[k].northing>>,
                  RingOf(sink[k]))
    /\ ~OnBoundary(<<2 * sink[k].easting, 2 * sink[k].northing>>,
                   RingOf(sink[k]))

\* C1 witness: the L-shaped polygon was scanned to the end; its walk met
\* the boundary candidate (100,100) and the outside candidate (150,150) and
\* emitted the five interior ones.
C1_Witness ==
  /\ pc = "done"
  /\ source = <<LShape>>
  /\ spacing = 50
  /\ Len(sink) = 5
  /\ OnBoundary(<<200, 200>>, LShape)
  /\ ~intersects(150, 150, LShape)

\* C2 (completeness), as claimed: in a run that was not cancelled, every
\* lattice point strictly inside a feature's polygon is emitted exactly
\* once for that feature.
C2_Completeness ==
  (pc = "done" /\ ~broke) =>
    \A f \in 1..Len(source) :
      \A p \in InteriorLattice(source[f], spacing) :
        Cardinality(RecordsAt(f - 1, p)) = 1

\* C3 (P2, lattice alignment): easting and northing of every emitted point
\* are multiples of the configured spacing (50 with GRID50, 100 without).
C3_LatticeAlignment ==
  \A k \in 1..Len(sink) :
    /\ sink[k].easting % SpacingOf(grid50) = 0
    /\ sink[k].northing % SpacingOf(grid50) = 0

\* C3 witness: a point with negative coordinates was emitted for a polygon
\* whose truncated minimum (-75, -60) is no multiple of the spacing.
C3_Witness ==
  /\ pc = "done"
  /\ \E k \in 1..Len(sink) :
       /\ sink[k].easting = -50
       /\ sink[k].northing = -50
       /\ int(BoxOf(sink[k]).xMinimum) % spacing # 0
       /\ int(BoxOf(sink[k]).yMinimum) % spacing # 0

\* C4 (P3, classification): the spacing attribute is 100 exactly when both
\* coordinates are multiples of 100, and is the configured spacing
\* otherwise.
C4_Classification ==
  \A k \in 1..Len(sink) :
    LET on100 == sink[k].easting % 100 = 0 /\ sink[k].northing % 100 = 0
    IN  /\ sink[k].spacing = 100 <=> on100
        /\ ~on100 => sink[k].spacing = SpacingOf(grid50)

\* C4 witness: a finished run with spacing 50 that emitted a point of each
\* class, among them one with exactly one coordinate on the 100 m lattice.
C4_Witness ==
  /\ pc = "done"
  /\ grid50
  /\ \E j, k \in 1..Len(sink) :
       /\ sink[j].spacing = 100
       /\ sink[k].spacing = 50
       /\ sink[k].easting % 100 = 0
       /\ sink[k].northing % 100 # 0

\* C5 (P4, id monotonicity): the record_id values in the sink are 1, 2, ...,
\* n in emission order, and the counter is one past the last id given.
C5_IdSequence ==
  /\ \A k \in 1..Len(sink) : sink[k].record_id = k
  /\ pc \in {"loop", "row", "col", "finish", "done"} => count = Len(sink) + 1

\* C5 witness: a finished run over two features in which both features
\* emitted points and candidates were rejected (the L shape's boundary).
C5_Witness ==
  /\ pc = "done"
  /\ Len(source) = 2
  /\ source[1] = LShape
  /\ \E k \in 1..Len(sink) - 1 :
       sink[k].feature = 0 /\ sink[k + 1].feature = 1

\* C6 (P5, exclusive upper bound): every emitted point satisfies
\* start_x <= easting < int(xMax) and start_y <= northing < int(yMax) of
\* the bounding box of its feature.
C6_ExclusiveUpperBound ==
  \A k \in 1..Len(sink) :
    LET bb == BoxOf(sink[k])
    IN  /\ roundup(int(bb.xMinimum), spacing) <= sink[k].easting
        /\ sink[k].easting < int(bb.xMaximum)
        /\ roundup(int(bb.yMinimum), spacing) <= sink[k].northing
        /\ sink[k].northing < int(bb.yMaximum)

\* C6 witness: the square (0.5,0.5)-(100.5,100.5) was scanned to the end
\* with spacing 50; (100,50) is inside it and has easting int(xMax) = 100,
\* and only (50,50) was emitted.
C6_Witness ==
  /\ pc = "done"
  /\ source = <<FracSquare>>
  /\ spacing = 50
  /\ int(boundingBox(FracSquare).xMaximum) = 100
  /\ within(100, 50, FracSquare)
  /\ PointsOf(0) = {<<50, 50>>}

\* C7 (reprojection fast path), as claimed: once line 194 has been passed,
\* the reprojection step has run exactly when the source reference system
\* differs from EPSG:27700, and a source already in EPSG:27700 is sampled
\* as it was given.
C7_NoReprojectionWhenSameCrs ==
  (sourceValid /\ pc \notin {"start", "reproject"}) =>
    /\ reprojected <=> sourceCrs # BNG
    /\ sourceCrs = BNG => source = features

\* C8 (SourceUnavailable), as claimed: with no source layer the run ends
\* at once with the invalid-source exception, and nothing has been emitted.
C8_SourceUnavailable ==
  ~sourceValid =>
    /\ pc \in {"start", "failed"}
    /\ pc = "failed" => error = "InvalidSource"
    /\ sink = <<>>

\* the points the walk of lines 265-294 emits for ring g with spacing s
WalkPoints(g, s) ==
  LET bb == boundingBox(g)
      xs == {v \in roundup(int(bb.xMinimum), s)..(int(bb.xMaximum) - 1) :
               v % s = 0}
      ys == {v \in roundup(int(bb.yMinimum), s)..(int(bb.yMaximum) - 1) :
               v % s = 0}
  IN  {p \in xs \X ys : within(p[1], p[2], g)}

\* feature f (0-based) has been scanned to the end
FullyScanned(f) ==
  \/ f < current
  \/ f = current /\ ~broke /\ pc \in {"loop", "finish", "done"}

\* feature f (0-based) is being scanned
BeingScanned(f) == f = current /\ pc \in {"row", "col"}

C9_State ==
  /\ polls = current + 1
  /\ broke => /\ pc \in {"finish", "done"}
              /\ error = "none"
              /\ pc = "done" => returned
  /\ \A f \in 0..(Len(source) - 1) :
       IF FullyScanned(f)
         THEN /\ PointsOf(f) = WalkPoints(source[f + 1], spacing)
              /\ \A p \in PointsOf(f) : Cardinality(RecordsAt(f, p)) = 1
         ELSE BeingScanned(f) \/ PointsOf(f) = {}

C9_Step ==
  /\ Len(sink') >= Len(sink)
  /\ SubSeq(sink', 1, Len(sink)) = sink
  /\ broke => broke' /\ sink' = sink
  /\ pc \in {"row", "col"} => polls' = polls

\* C9 (cancellation at feature granularity): the flag is polled once per
\* feature taken from the loop and never during the walk; after the break
\* nothing more is emitted, the run ends normally, the sink only ever
\* grows (no rollback), and every feature is fully scanned or has no point
\* in the sink unless its walk is under way.
C9_Cancellation == [](C9_State) /\ [][C9_Step]_vars

\* C9 witness: the run returned after the break taken at the second
\* feature; the first feature's points are in the sink and the second,
\* which has points to emit, contributed none.
C9_Witness ==
  /\ pc = "done"
  /\ returned
  /\ broke
  /\ current = 1
  /\ PointsOf(0) # {}
  /\ WalkPoints(source[2], spacing) # {}
  /\ PointsOf(1) = {}

\* the record of a point emitted for the first feature
Rec(id, e, n, s) ==
  [record_id |-> id, easting |-> e, northing |-> n, spacing |-> s,
   feature |-> 0]

\* a finished, uncancelled run on the single square (0,0)-(150,150)
ScenarioBRun == pc = "done" /\ ~broke /\ source = <<SquareB>>

\* C10 (scenario B), as claimed: with spacing 50 the emitted points are
\* (50,50), tagged 50, and (100,100), tagged 100; with spacing 100 the only
\* emitted point is (100,100).
C10_ScenarioB_AsClaimed ==
  ScenarioBRun =>
    IF grid50
      THEN /\ PointsOf(0) = {<<50, 50>>, <<100, 100>>}
           /\ \A k \in 1..Len(sink) :
                sink[k].spacing = IF sink[k].easting = 100 THEN 100 ELSE 50
      ELSE PointsOf(0) = {<<100, 100>>}

\* C10 (scenario B), amended: with spacing 50 the sink holds the four
\* interior lattice points (50,50), (100,50), (50,100), (100,100), in this
\* order with ids 1..4, (100,100) tagged 100 and the other three tagged 50;
\* with spacing 100 it holds (100,100) alone, id 1, tagged 100.
C10_ScenarioB ==
  ScenarioBRun =>
    IF grid50
      THEN sink = <<Rec(1, 50, 50, 50), Rec(2, 100, 50, 50),
                    Rec(3, 50, 100, 50), Rec(4, 100, 100, 100)>>
      ELSE sink = <<Rec(1, 100, 100, 100)>>

\* C10 witness: the scenario's run with spacing 50 has ended and the sink
\* holds four points.
C10_Witness == ScenarioBRun /\ grid50 /\ Len(sink) = 4

\* the bounding box of ring g collapses to a line or a point
Collapsed(g) ==
  LET bb == boundingBox(g)
  IN  bb.xMinimum = bb.xMaximum \/ bb.yMinimum = bb.yMaximum

\* the lattice walk of a feature is under way
Walking == pc \in {"row", "col"}

\* a feature with a collapsed bounding box has no point in the sink, and
\* no exception has been raised when it is taken from the loop
C11_Degenerate ==
  \A f \in 0..(Len(source) - 1) :
    Collapsed(source[f + 1]) =>
      /\ PointsOf(f) = {}
      /\ f <= current => error = "none" /\ pc # "failed"

\* inside the walk x and y only move up, by the positive spacing, and stay
\* on the walk's side of the exclusive upper bounds when a candidate is
\* tested
C11_Step ==
  /\ (pc = "col" /\ x' # x) =>
       x < end_x /\ spacing > 0 /\ x' = x + spacing /\ y' = y
  /\ (pc = "col" /\ y' # y) =>
       ~(x < end_x) /\ y < end_y /\ spacing > 0 /\ y' = y + spacing

\* C11 (scenario C, termination): the walk of every feature ends (the for
\* loop is reached again), its loop variables strictly increasing by the
\* spacing until the exclusive upper bounds; a polygon whose bounding box
\* collapses to a line or a point emits nothing and raises nothing.
C11_Termination ==
  /\ [](C11_Degenerate)
  /\ [][C11_Step]_vars
  /\ (Walking ~> pc = "loop")

\* C11 witness: the walk of a collapsed ring has ended after going through
\* at least one row, nothing was emitted and no exception raised.
C11_Witness ==
  /\ pc = "loop"
  /\ current = 0
  /\ Collapsed(source[1])
  /\ y > roundup(int(boundingBox(source[1]).yMinimum), spacing)
  /\ ~(y < end_y)
  /\ sink = <<>>
  /\ error = "none"

\* C12 (P6, determinism): a second run on the same features and spacing
\* emits, point for point, what the first run emitted: while it runs its
\* sink is a prefix of the first run's, and when neither run was cancelled
\* the two sinks are equal (record_id, easting, northing, spacing at every
\* position); the counter is 1 when the for loop of either run starts.
C12_Determinism ==
  /\ (run = 2 /\ ~previous.broke) =>
       /\ Len(sink) <= Len(previous.sink)
       /\ sink = SubSeq(previous.sink, 1, Len(sink))
  /\ (run = 2 /\ pc = "done" /\ ~broke /\ ~previous.broke) =>
       sink = previous.sink
  /\ (pc = "loop" /\ current = -1) => count = 1

\* C12 witness: the second of two uncancelled runs over two features has
\* ended, and both runs emitted several points.
C12_Witness ==
  /\ run = 2
  /\ pc = "done"
  /\ ~broke
  /\ ~previous.broke
  /\ Len(source) = 2
  /\ Len(previous.sink) > 2
  /\ Len(sink) = Len(previous.sink)

\* C13 (round-up of the lattice start): for an integer v, negative, zero
\* or positive, and spacing s, roundup(v, s) is the least multiple of s
\* that is >= v: v itself when v is a multiple of s, and otherwise a
\* multiple r of s with v < r < v + s.
C13_RoundupLeastMultiple ==
  roundupResult # <<>> =>
    LET v == roundupArg
        s == SpacingOf(grid50)
        r == roundupResult[1]
    IN  /\ r % s = 0
        /\ r >= v
        /\ \A k \in v..(r - 1) : k % s # 0
        /\ v % s = 0 => r = v
        /\ v % s # 0 => v < r /\ r < v + s

\* C13 witness: roundup was applied to a negative integer that is no
\* multiple of the spacing, and the result is above it and at most zero.
C13_Witness ==
  /\ roundupResult # <<>>
  /\ roundupArg < 0
  /\ roundupArg % SpacingOf(grid50) # 0
  /\ roundupResult[1] > roundupArg
  /\ roundupResult[1] <= 0

\* C14 (empty source), as claimed: a run with a valid source layer of zero
\* features and a valid sink ends by returning the output identifier,
\* having reported progress and emitted nothing, with no exception.
C14_EmptySource ==
  (sourceValid /\ sinkValid /\ features = <<>> /\ pc \in {"done", "failed"}) =>
    /\ pc = "done"
    /\ error = "none"
    /\ returned
    /\ progress >= 0
    /\ sink = <<>>

=============================================================================
